---- MODULE Spec2Model ----
(***************************************************************************)
(* A model of go-neural's feedforward network engine: neural/layer.go,     *)
(* neural/network.go, pkg/matrix and the cost/gradient evaluations that     *)
(* Network.Train hands to the optimizer.                                    *)
(*                                                                          *)
(* Numbers.  float64 values are modelled as exact rationals <<n, d>> in     *)
(* lowest terms with d > 0.  Matrices are records [r, c, d] with d a        *)
(* sequence of rows; Go's 0-based row/column k is row/column k+1 here.      *)
(* A nil matrix is NilMx.  Layer ids (random strings) are left out.         *)
(* Numeric layer outputs are computed for the "relu" activation, whose      *)
(* arithmetic is exact on rationals.                                        *)
(***************************************************************************)
EXTENDS Integers, Sequences, FiniteSets, TLC

VARIABLES layers, builtArch, nops, last, gradLog, run

vars == <<layers, builtArch, nops, last, gradLog, run>>

(***************************************************************************)
(* Rational arithmetic                                                      *)
(***************************************************************************)
Abs(x) == IF x < 0 THEN -x ELSE x

RECURSIVE GCD(_, _)
GCD(a, b) == IF b = 0 THEN a ELSE GCD(b, a % b)

Norm(n, d) == IF n = 0 THEN <<0, 1>>
              ELSE LET g == GCD(Abs(n), d) IN <<n \div g, d \div g>>

RI(n) == <<n, 1>>
RZero == <<0, 1>>
ROne == <<1, 1>>
RAdd(a, b) == Norm(a[1] * b[2] + b[1] * a[2], a[2] * b[2])
RSub(a, b) == Norm(a[1] * b[2] - b[1] * a[2], a[2] * b[2])
RMul(a, b) == Norm(a[1] * b[1], a[2] * b[2])
RInv(k) == Norm(1, k)
RPos(a) == a[1] > 0

\* float64 division: x/0 is +Inf, -Inf or NaN, written <<1, 0>>, <<-1, 0>>, <<0, 0>>
NaN == <<0, 0>>
RDiv(a, b) == IF b[1] = 0 THEN <<(IF a[1] > 0 THEN 1 ELSE IF a[1] < 0 THEN -1 ELSE 0), 0>>
              ELSE IF b[1] > 0 THEN Norm(a[1] * b[2], a[2] * b[1])
              ELSE Norm(-(a[1] * b[2]), a[2] * (-b[1]))
\* float64 product with an operand that may be infinite or NaN
RMulF(f, x) == IF f[2] # 0 THEN RMul(f, x)
               ELSE IF f[1] = 0 \/ x[1] = 0 THEN NaN
               ELSE <<(IF (f[1] > 0) = (x[1] > 0) THEN 1 ELSE -1), 0>>

\* float64 sum with an operand that may be infinite or NaN
RAddF(a, b) == IF a[2] # 0 /\ b[2] # 0 THEN RAdd(a, b)
               ELSE IF a[2] = 0 /\ b[2] = 0 THEN (IF a = b THEN a ELSE NaN)
               ELSE IF a[2] = 0 THEN a ELSE b

RECURSIVE RSum(_)
RSum(s) == IF s = <<>> THEN RZero ELSE RAdd(Head(s), RSum(Tail(s)))

(***************************************************************************)
(* Matrices (gonum mat64.Dense as the repository uses it)                   *)
(***************************************************************************)
\* a value computed once and named: F's parameter stands for v
With(v, F(_)) == F(v)

NilMx == [r |-> 0, c |-> 0, d |-> <<>>]
IsNil(m) == m.r = 0

MkMx(r, c, F(_, _)) == [r |-> r, c |-> c,
                        d |-> [i \in 1..r |-> [j \in 1..c |-> F(i, j)]]]

At(m, i, j) == m.d[i][j]
Zeros(r, c) == MkMx(r, c, LAMBDA i, j : RZero)
Fill(r, c, v) == MkMx(r, c, LAMBDA i, j : v)
T(m) == MkMx(m.c, m.r, LAMBDA i, j : At(m, j, i))
MxAdd(a, b) == MkMx(a.r, a.c, LAMBDA i, j : RAdd(At(a, i, j), At(b, i, j)))
MxSub(a, b) == MkMx(a.r, a.c, LAMBDA i, j : RSub(At(a, i, j), At(b, i, j)))
MxScale(f, a) == MkMx(a.r, a.c, LAMBDA i, j : RMul(f, At(a, i, j)))
MxMulElem(a, b) == MkMx(a.r, a.c, LAMBDA i, j : RMul(At(a, i, j), At(b, i, j)))
MxMul(a, b) == MkMx(a.r, b.c,
                 LAMBDA i, j : RSum([k \in 1..a.c |-> RMul(At(a, i, k), At(b, k, j))]))
RowOf(m, i) == MkMx(1, m.c, LAMBDA x, j : At(m, i, j))
SameDims(a, b) == a.r = b.r /\ a.c = b.c
IsZeroMx(m) == \A i \in 1..m.r : \A j \in 1..m.c : At(m, i, j) = RZero

\* matrix.AddBias: a leading column of 1.0 is prepended
AddBias(m) == MkMx(m.r, m.c + 1, LAMBDA i, j : IF j = 1 THEN ROne ELSE At(m, i, j - 1))

\* the matrix unrolled row by row where column by column is asked for
Mx2VecRowWise(m) == [k \in 1..(m.r * m.c) |->
                       At(m, ((k - 1) \div m.c) + 1, ((k - 1) % m.c) + 1)]

\* matrix.Mx2Vec(m, false): the matrix unrolled column by column
Mx2VecByCol(m) == [k \in 1..(m.r * m.c) |->
                     At(m, ((k - 1) % m.r) + 1, ((k - 1) \div m.r) + 1)]

\* the matrix filled row by row where column by column is asked for
SetMx2VecRowWise(m, vec) == MkMx(m.r, m.c, LAMBDA i, j : vec[(i - 1) * m.c + j])

\* matrix.SetMx2Vec(m, vec, false): the matrix filled column by column
SetMx2VecByCol(m, vec) == MkMx(m.r, m.c, LAMBDA i, j : vec[(j - 1) * m.r + i])

\* matrix.MakeRandMx: rand.Seed(55) before every matrix, so every matrix
\* receives the same prefix of one fixed sequence, laid out row by row
RandSeq(k) == IF k % 2 = 1 THEN <<1, 2>> ELSE <<-1, 2>>
MakeRandMx(rows, cols) == MkMx(rows, cols, LAMBDA i, j : RandSeq((i - 1) * cols + j))

(***************************************************************************)
(* Layer (neural/layer.go)                                                  *)
(***************************************************************************)
INPUT == "INPUT"
HIDDEN == "HIDDEN"
OUTPUT == "OUTPUT"

\* var layerKind: the layer kinds a LayerConfig may name
LayerKindNames == {"input", "hidden", "output"}
layerKind(name) == CASE name = "input" -> INPUT
                     [] name = "hidden" -> HIDDEN
                     [] name = "output" -> OUTPUT

\* var activations: the supported activation names
activations == {"sigmoid", "softmax", "tanh", "relu"}

\* matrix.ReluMx and matrix.ReluGradMx
ReluMx(x) == IF RPos(x) THEN x ELSE RZero
ReluGradMx(x) == IF RPos(x) THEN ROne ELSE RZero
Act(meta, x) == CASE meta = "relu" -> ReluMx(x)
ActGrad(meta, x) == CASE meta = "relu" -> ReluGradMx(x)

NilLayer == [kind |-> "NONE", weights |-> NilMx, deltas |-> NilMx, meta |-> ""]
NilConfig == [nil |-> TRUE, Kind |-> "", Size |-> 0, Activation |-> ""]
LayerConfig(kind, size, act) ==
    [nil |-> FALSE, Kind |-> kind, Size |-> size, Activation |-> act]

\* NewLayer that takes any activation name
NewLayerAnyAct(c, layerIn) ==
    IF layerIn <= 0 THEN [st |-> "error", layer |-> NilLayer]
    ELSE IF c.nil THEN [st |-> "panic", layer |-> NilLayer]
    ELSE IF c.Size <= 0 THEN [st |-> "error", layer |-> NilLayer]
    ELSE IF c.Kind \notin LayerKindNames THEN [st |-> "error", layer |-> NilLayer]
    ELSE IF layerKind(c.Kind) # INPUT
         THEN [st |-> "ok",
               layer |-> [kind |-> layerKind(c.Kind),
                          weights |-> MakeRandMx(c.Size, layerIn + 1),
                          deltas |-> Zeros(c.Size, layerIn + 1),
                          meta |-> c.Activation]]
         ELSE [st |-> "ok",
               layer |-> [kind |-> INPUT, weights |-> NilMx, deltas |-> NilMx,
                          meta |-> ""]]

\* NewLayer(c, layerIn): [st, layer]
NewLayer(c, layerIn) ==
    IF layerIn <= 0 THEN [st |-> "error", layer |-> NilLayer]
    ELSE IF c.nil THEN [st |-> "panic", layer |-> NilLayer]
    ELSE IF c.Size <= 0 THEN [st |-> "error", layer |-> NilLayer]
    ELSE IF c.Kind \notin LayerKindNames THEN [st |-> "error", layer |-> NilLayer]
    ELSE IF layerKind(c.Kind) # INPUT
         THEN IF c.Activation \notin activations
              THEN [st |-> "error", layer |-> NilLayer]
              ELSE [st |-> "ok",
                    layer |-> [kind |-> layerKind(c.Kind),
                               weights |-> MakeRandMx(c.Size, layerIn + 1),
                               deltas |-> Zeros(c.Size, layerIn + 1),
                               meta |-> c.Activation]]
         ELSE [st |-> "ok",
               layer |-> [kind |-> INPUT, weights |-> NilMx, deltas |-> NilMx,
                          meta |-> ""]]

\* SetWeights with the accumulator re-allocated transposed
SetWeightsTransposedDeltas(l, w) ==
    IF l.kind = INPUT THEN [st |-> "error", layer |-> l]
    ELSE IF IsNil(w) THEN [st |-> "error", layer |-> l]
    ELSE IF w.r # l.weights.r \/ w.c # l.weights.c THEN [st |-> "error", layer |-> l]
    ELSE [st |-> "ok",
          layer |-> [l EXCEPT !.weights = w, !.deltas = Zeros(w.c, w.r)]]

\* SetWeights that keeps the old accumulator
SetWeightsKeepDeltas(l, w) ==
    IF l.kind = INPUT THEN [st |-> "error", layer |-> l]
    ELSE IF IsNil(w) THEN [st |-> "error", layer |-> l]
    ELSE IF w.r # l.weights.r \/ w.c # l.weights.c THEN [st |-> "error", layer |-> l]
    ELSE [st |-> "ok", layer |-> [l EXCEPT !.weights = w]]

\* Layer.SetWeights(w): [st, layer]
SetWeights(l, w) ==
    IF l.kind = INPUT THEN [st |-> "error", layer |-> l]
    ELSE IF IsNil(w) THEN [st |-> "error", layer |-> l]
    ELSE IF w.r # l.weights.r \/ w.c # l.weights.c THEN [st |-> "error", layer |-> l]
    ELSE [st |-> "ok",
          layer |-> [l EXCEPT !.weights = w, !.deltas = Zeros(w.r, w.c)]]

\* FwdOut that only rejects an input wider than the weights
FwdOutLoose(l, inputMx) ==
    IF IsNil(inputMx) THEN [st |-> "error", out |-> NilMx]
    ELSE IF l.kind = INPUT THEN [st |-> "ok", out |-> inputMx]
    ELSE IF inputMx.c + 1 > l.weights.c THEN [st |-> "error", out |-> NilMx]
    ELSE With(MxMul(AddBias(inputMx), T(l.weights)), LAMBDA pre :
              [st |-> "ok",
               out |-> MkMx(pre.r, pre.c, LAMBDA i, j : Act(l.meta, At(pre, i, j)))])

\* FwdOut whose INPUT layer hands on the bias-augmented input
FwdOutBiasedInput(l, inputMx) ==
    IF IsNil(inputMx) THEN [st |-> "error", out |-> NilMx]
    ELSE IF l.kind = INPUT THEN [st |-> "ok", out |-> AddBias(inputMx)]
    ELSE IF inputMx.c + 1 # l.weights.c THEN [st |-> "error", out |-> NilMx]
    ELSE With(MxMul(AddBias(inputMx), T(l.weights)), LAMBDA pre :
              [st |-> "ok",
               out |-> MkMx(pre.r, pre.c, LAMBDA i, j : Act(l.meta, At(pre, i, j)))])

\* FwdOut that leaves the bias column in its output
FwdOutKeepsBias(l, inputMx) ==
    IF IsNil(inputMx) THEN [st |-> "error", out |-> NilMx]
    ELSE IF l.kind = INPUT THEN [st |-> "ok", out |-> inputMx]
    ELSE IF inputMx.c + 1 # l.weights.c THEN [st |-> "error", out |-> NilMx]
    ELSE With(MxMul(AddBias(inputMx), T(l.weights)), LAMBDA pre :
              [st |-> "ok",
               out |-> AddBias(MkMx(pre.r, pre.c,
                                    LAMBDA i, j : Act(l.meta, At(pre, i, j))))])

\* Layer.FwdOut(inputMx): [st, out]
FwdOut(l, inputMx) ==
    IF IsNil(inputMx) THEN [st |-> "error", out |-> NilMx]
    ELSE IF l.kind = INPUT THEN [st |-> "ok", out |-> inputMx]
    ELSE IF inputMx.c + 1 # l.weights.c THEN [st |-> "error", out |-> NilMx]
    ELSE With(MxMul(AddBias(inputMx), T(l.weights)), LAMBDA pre :
              [st |-> "ok",
               out |-> MkMx(pre.r, pre.c, LAMBDA i, j : Act(l.meta, At(pre, i, j)))])

(***************************************************************************)
(* Network (neural/network.go)                                              *)
(***************************************************************************)
InsertAt(ls, pos, x) == SubSeq(ls, 1, pos - 1) \o <<x>> \o SubSeq(ls, pos, Len(ls))

\* a HIDDEN layer always placed right after the first layer
HiddenPosFirst(ls) == 2

\* the position (1-based) at which AddLayer places a HIDDEN layer when the
\* network already holds more than one layer: lastHidden + 1, lastHidden = 0
\* when there is no HIDDEN layer
HiddenPos(ls) ==
    LET hs == {i \in 1..Len(ls) : ls[i].kind = HIDDEN}
    IN IF hs = {} THEN 2 ELSE (CHOOSE i \in hs : \A k \in hs : k <= i) + 1

\* Network.AddLayer(layer): [st, layers]
AddLayer(ls, layer) ==
    LET layerCount == Len(ls) IN
    IF layerCount = 0 THEN [st |-> "ok", layers |-> Append(ls, layer)]
    ELSE IF layerCount = 1 THEN
        IF ls[1].kind = INPUT /\ layer.kind = INPUT THEN [st |-> "error", layers |-> ls]
        ELSE IF ls[1].kind = OUTPUT /\ layer.kind = OUTPUT
             THEN [st |-> "error", layers |-> ls]
        ELSE [st |-> "ok", layers |-> Append(ls, layer)]
    ELSE CASE layer.kind = INPUT ->
                IF ls[1].kind = INPUT THEN [st |-> "error", layers |-> ls]
                ELSE [st |-> "ok", layers |-> <<layer>> \o ls]
           [] layer.kind = OUTPUT ->
                IF ls[layerCount].kind = OUTPUT THEN [st |-> "error", layers |-> ls]
                ELSE [st |-> "ok", layers |-> Append(ls, layer)]
           [] layer.kind = HIDDEN ->
                [st |-> "ok", layers |-> InsertAt(ls, HiddenPos(ls), layer)]

NilArch == [nil |-> TRUE, Input |-> NilConfig, Hidden |-> <<>>, Output |-> NilConfig]
NetArch(input, hidden, output) ==
    [nil |-> FALSE, Input |-> input, Hidden |-> hidden, Output |-> output]
NilNetConfig == [nil |-> TRUE, Kind |-> "", Arch |-> NilArch]
NetConfig(kind, arch) == [nil |-> FALSE, Kind |-> kind, Arch |-> arch]

\* the loop over arch.Hidden that never advances layerInSize
RECURSIVE AddHiddenStale(_, _, _)
AddHiddenStale(ls, hidden, layerInSize) ==
    IF hidden = <<>> THEN [st |-> "ok", layers |-> ls, layerInSize |-> layerInSize]
    ELSE LET nl == NewLayer(Head(hidden), layerInSize) IN
         IF nl.st # "ok" THEN [st |-> nl.st, layers |-> <<>>, layerInSize |-> 0]
         ELSE LET al == AddLayer(ls, nl.layer) IN
              IF al.st # "ok" THEN [st |-> al.st, layers |-> <<>>, layerInSize |-> 0]
              ELSE AddHiddenStale(al.layers, Tail(hidden), layerInSize)

\* the loop over arch.Hidden of createFeedFwdNetwork: [st, layers, layerInSize]
RECURSIVE AddHidden(_, _, _)
AddHidden(ls, hidden, layerInSize) ==
    IF hidden = <<>> THEN [st |-> "ok", layers |-> ls, layerInSize |-> layerInSize]
    ELSE LET nl == NewLayer(Head(hidden), layerInSize) IN
         IF nl.st # "ok" THEN [st |-> nl.st, layers |-> <<>>, layerInSize |-> 0]
         ELSE LET al == AddLayer(ls, nl.layer) IN
              IF al.st # "ok" THEN [st |-> al.st, layers |-> <<>>, layerInSize |-> 0]
              ELSE AddHidden(al.layers, Tail(hidden), Head(hidden).Size)

\* createFeedFwdNetwork(arch): [st, layers]; layers = <<>> stands for a nil network
createFeedFwdNetwork(arch) ==
    IF arch.nil THEN [st |-> "error", layers |-> <<>>]
    ELSE IF arch.Input.nil THEN [st |-> "panic", layers |-> <<>>]
    ELSE LET inL == NewLayer(arch.Input, arch.Input.Size) IN
         IF inL.st # "ok" THEN [st |-> inL.st, layers |-> <<>>]
         ELSE LET a0 == AddLayer(<<>>, inL.layer) IN
              IF a0.st # "ok" THEN [st |-> a0.st, layers |-> <<>>]
              ELSE LET hid == AddHidden(a0.layers, arch.Hidden, arch.Input.Size) IN
                   IF hid.st # "ok" THEN [st |-> hid.st, layers |-> <<>>]
                   ELSE LET outL == NewLayer(arch.Output, hid.layerInSize) IN
                        IF outL.st # "ok" THEN [st |-> outL.st, layers |-> <<>>]
                        ELSE LET a1 == AddLayer(hid.layers, outL.layer) IN
                             IF a1.st # "ok" THEN [st |-> a1.st, layers |-> <<>>]
                             ELSE [st |-> "ok", layers |-> a1.layers]

\* NewNetwork(c): [st, layers]
NewNetwork(c) ==
    IF c.nil THEN [st |-> "error", layers |-> <<>>]
    ELSE IF c.Kind # "feedfwd" THEN [st |-> "error", layers |-> <<>>]
    ELSE createFeedFwdNetwork(c.Arch)

\* Network.doForwardProp(inMx, from, to): [st, out]; from and to are 0-based
RECURSIVE doForwardProp(_, _, _, _)
doForwardProp(ls, inMx, from, to) ==
    With(FwdOut(ls[from + 1], inMx), LAMBDA o :
    IF from = to THEN o
    ELSE IF o.st # "ok" THEN [st |-> o.st, out |-> NilMx]
    ELSE doForwardProp(ls, o.out, from + 1, to))

\* Network.ForwardProp(inMx, toLayer): [st, out]
ForwardProp(ls, inMx, toLayer) ==
    IF IsNil(inMx) THEN [st |-> "error", out |-> NilMx]
    ELSE IF toLayer < 0 \/ toLayer > Len(ls) - 1 THEN [st |-> "error", out |-> NilMx]
    ELSE doForwardProp(ls, inMx, 0, toLayer)

SetLayer(ls, idx, l) == [ls EXCEPT ![idx] = l]

\* Network.doBackProp(inMx, errMx, from, to): [st, layers]; from and to are
\* 0-based.  A nil dereference or a gonum shape panic is the status "panic".
RECURSIVE doBackProp(_, _, _, _, _)
doBackProp(ls, inMx, errMx, from, to) ==
    With(ForwardProp(ls, inMx, from - 1), LAMBDA fp :
    IF fp.st # "ok" THEN [st |-> fp.st, layers |-> ls]
    ELSE With(AddBias(fp.out), LAMBDA outMxBias :
    IF errMx.r # outMxBias.r THEN [st |-> "panic", layers |-> ls]
    ELSE With(MxMul(T(errMx), outMxBias), LAMBDA dMx :
    IF IsNil(ls[from + 1].deltas) \/ ~SameDims(ls[from + 1].deltas, dMx)
    THEN [st |-> "panic", layers |-> ls]
    ELSE With([ls EXCEPT ![from + 1].deltas = MxAdd(ls[from + 1].deltas, dMx)], LAMBDA ls1 :
    IF from = to THEN [st |-> "ok", layers |-> ls1]
    ELSE With(MxMul(T(ls[from + 1].weights), T(errMx)), LAMBDA errTmpMx :
         With(MkMx(errTmpMx.r - 1, errTmpMx.c, LAMBDA i, j : At(errTmpMx, i + 1, j)),
              LAMBDA layerErr :
         With(ForwardProp(ls1, inMx, from - 2), LAMBDA act :
         IF act.st # "ok" THEN [st |-> act.st, layers |-> ls1]
         ELSE IF IsNil(ls1[from].weights) THEN [st |-> "panic", layers |-> ls1]
         ELSE With(AddBias(act.out), LAMBDA biasActInMx :
         IF biasActInMx.c # ls1[from].weights.c
         THEN [st |-> "panic", layers |-> ls1]
         ELSE With(MxMul(biasActInMx, T(ls1[from].weights)), LAMBDA pre :
              With(MkMx(pre.r, pre.c,
                        LAMBDA i, j : ActGrad(ls1[from].meta, At(pre, i, j))), LAMBDA g :
              IF ~SameDims(T(layerErr), g) THEN [st |-> "panic", layers |-> ls1]
              ELSE doBackProp(ls1, inMx, MxMulElem(T(layerErr), g), from - 1, to)))))))))))

\* BackProp that stops after the layer it starts from
BackPropTopOnly(ls, inMx, errMx, fromLayer) ==
    IF IsNil(inMx) THEN [st |-> "error", layers |-> ls]
    ELSE IF IsNil(errMx) THEN [st |-> "error", layers |-> ls]
    ELSE IF fromLayer < 1 \/ fromLayer > Len(ls) - 1 THEN [st |-> "error", layers |-> ls]
    ELSE doBackProp(ls, inMx, errMx, fromLayer, fromLayer)

\* BackProp that does not look at errMx before it propagates
BackPropNoErrCheck(ls, inMx, errMx, fromLayer) ==
    IF IsNil(inMx) THEN [st |-> "error", layers |-> ls]
    ELSE IF fromLayer < 1 \/ fromLayer > Len(ls) - 1 THEN [st |-> "error", layers |-> ls]
    ELSE doBackProp(ls, inMx, errMx, fromLayer, 1)

\* Network.BackProp(inMx, errMx, fromLayer): [st, layers]
BackProp(ls, inMx, errMx, fromLayer) ==
    IF IsNil(inMx) THEN [st |-> "error", layers |-> ls]
    ELSE IF IsNil(errMx) THEN [st |-> "error", layers |-> ls]
    ELSE IF fromLayer < 1 \/ fromLayer > Len(ls) - 1 THEN [st |-> "error", layers |-> ls]
    ELSE doBackProp(ls, inMx, errMx, fromLayer, 1)

\* setNetWeights that wants one element more than a layer takes
RECURSIVE setNetWeightsStrict(_, _, _, _)
setNetWeightsStrict(ls, k, weights, acc) ==
    IF k > Len(ls) THEN [st |-> "ok", layers |-> ls]
    ELSE LET w == ls[k].weights IN
         IF IsNil(w) THEN [st |-> "panic", layers |-> ls]
         ELSE IF Len(weights) - acc <= w.r * w.c THEN [st |-> "error", layers |-> ls]
         ELSE setNetWeightsStrict(
                 SetLayer(ls, k,
                     [ls[k] EXCEPT !.weights =
                         SetMx2VecByCol(w, SubSeq(weights, acc + 1, acc + w.r * w.c))]),
                 k + 1, weights, acc + w.r * w.c)

\* setNetWeights(layers, weights): [st, layers]; acc is the loop's accumulator
RECURSIVE setNetWeightsFrom(_, _, _, _)
setNetWeightsFrom(ls, k, weights, acc) ==
    IF k > Len(ls) THEN [st |-> "ok", layers |-> ls]
    ELSE LET w == ls[k].weights IN
         IF IsNil(w) THEN [st |-> "panic", layers |-> ls]
         ELSE IF Len(weights) - acc < w.r * w.c THEN [st |-> "error", layers |-> ls]
         ELSE setNetWeightsFrom(
                 SetLayer(ls, k,
                     [ls[k] EXCEPT !.weights =
                         SetMx2VecByCol(w, SubSeq(weights, acc + 1, acc + w.r * w.c))]),
                 k + 1, weights, acc + w.r * w.c)

setNetWeights(ls, weights) == setNetWeightsFrom(ls, 1, weights, 0)

\* MakeLabelsMx that takes the labels as 0-based column numbers
MakeLabelsMxZeroBased(labels, labCount) ==
    IF labCount < 0 THEN [st |-> "error", mx |-> NilMx]
    ELSE IF \E i \in 1..Len(labels) : labels[i] < 0 \/ labels[i] >= labCount
         THEN [st |-> "panic", mx |-> NilMx]
         ELSE [st |-> "ok",
               mx |-> MkMx(Len(labels), labCount,
                           LAMBDA i, j : IF j = labels[i] + 1 THEN ROne ELSE RZero)]

\* matrix.MakeLabelsMx(labels, labCount): [st, mx]; mat64's Set panics on a
\* column outside the matrix
MakeLabelsMx(labels, labCount) ==
    IF labCount < 0 THEN [st |-> "error", mx |-> NilMx]
    ELSE IF \E i \in 1..Len(labels) : labels[i] < 1 \/ labels[i] > labCount
         THEN [st |-> "panic", mx |-> NilMx]
         ELSE [st |-> "ok",
               mx |-> MkMx(Len(labels), labCount,
                           LAMBDA i, j : IF j = labels[i] THEN ROne ELSE RZero)]

\* Cost.Delta(outMx, expMx) of CrossEntropy and LogLikelihood: out - expected
Delta(outMx, expMx) == MxSub(outMx, expMx)

\* the per-sample loop of getGradient: [st, layers]
RECURSIVE backPropSamples(_, _, _, _, _)
backPropSamples(ls, inMx, outMx, labelsMx, i) ==
    IF i > inMx.r THEN [st |-> "ok", layers |-> ls]
    ELSE IF i > labelsMx.r THEN [st |-> "panic", layers |-> ls]
    ELSE With(BackProp(ls, RowOf(inMx, i),
                       Delta(RowOf(outMx, i), RowOf(labelsMx, i)), Len(ls) - 1),
              LAMBDA bp :
              IF bp.st # "ok" THEN bp
              ELSE backPropSamples(bp.layers, inMx, outMx, labelsMx, i + 1))

\* the regularized gradient with the bias column regularized as well
RegGradAllColumns(layer, deltas, lambda, samples) ==
    MxAdd(deltas, MxScale(RMul(lambda, RInv(samples)), layer.weights))

\* the regularised gradient of one layer (getGradient, Lambda > 0): the bias
\* column of the weights is zeroed, the rest scaled by lambda/samples and
\* added to the scaled deltas
RegGrad(layer, deltas, lambda, samples) ==
    LET reg == RMul(lambda, RInv(samples))
        regWeights == MkMx(layer.weights.r, layer.weights.c,
                           LAMBDA i, j : IF j = 1 THEN RZero
                                         ELSE RMul(reg, At(layer.weights, i, j)))
    IN MxAdd(deltas, regWeights)

\* the gradient loop of getGradient over layers 1..len-1: [st, layers, grad]
RECURSIVE gradLoop(_, _, _, _, _)
gradLoop(ls, i, lambda, samples, gradient) ==
    IF i > Len(ls) THEN [st |-> "ok", layers |-> ls, grad |-> gradient]
    ELSE IF IsNil(ls[i].deltas) THEN [st |-> "panic", layers |-> ls, grad |-> <<>>]
    ELSE With(MxScale(RInv(samples), ls[i].deltas), LAMBDA deltas :
         With(SetLayer(ls, i, [ls[i] EXCEPT !.deltas = deltas]), LAMBDA ls1 :
         IF RPos(lambda)
         THEN gradLoop(ls1, i + 1, lambda, samples,
                       gradient \o Mx2VecByCol(RegGrad(ls[i], deltas, lambda, samples)))
         ELSE gradLoop(ls1, i + 1, lambda, samples, gradient)))

\* Train's initWeights: the weights of layers i.. (1-based) packed into a slice
RECURSIVE initWeights(_, _)
initWeights(ls, i) ==
    IF i > Len(ls) THEN <<>>
    ELSE Mx2VecByCol(ls[i].weights) \o initWeights(ls, i + 1)

\* what setNetWeights(layers[1:], weights) leaves in the network
SetTail(ls, weights) ==
    With(setNetWeights(Tail(ls), weights), LAMBDA sw :
         [st |-> sw.st, layers |-> <<Head(ls)>> \o sw.layers])

\* an evaluation that leaves the weights as they are
SetNothing(ls, weights) == [st |-> "ok", layers |-> ls]

\* the weights set when a weights slice is supplied
SetIfGiven(ls, weights) ==
    IF weights # <<>> THEN SetTail(ls, weights) ELSE [st |-> "ok", layers |-> ls]

\* Network.getGradient(c, weights, inMx, labelsVec): [st, layers, grad].
\* A nil weights slice is the empty sequence.
getGradient(ls, lambda, weights, inMx, labelsVec) ==
    IF Len(ls) = 0 THEN [st |-> "panic", layers |-> ls, grad |-> <<>>]
    ELSE With(SetIfGiven(ls, weights), LAMBDA sw :
    IF sw.st # "ok" THEN [st |-> sw.st, layers |-> sw.layers, grad |-> <<>>]
    ELSE With(ForwardProp(sw.layers, inMx, Len(ls) - 1), LAMBDA fp :
    IF fp.st # "ok" THEN [st |-> fp.st, layers |-> sw.layers, grad |-> <<>>]
    ELSE With(MakeLabelsMx(labelsVec, fp.out.c), LAMBDA lm :
    IF lm.st # "ok" THEN [st |-> lm.st, layers |-> sw.layers, grad |-> <<>>]
    ELSE With(backPropSamples(sw.layers, inMx, fp.out, lm.mx, 1), LAMBDA bp :
    IF bp.st # "ok" THEN [st |-> bp.st, layers |-> bp.layers, grad |-> <<>>]
    ELSE gradLoop(bp.layers, 2, lambda, inMx.r, <<>>)))))

\* config.OptimConfig and config.TrainConfig, and a nil pointer to each
NilOptim == [nil |-> TRUE, Method |-> "", Iterations |-> 0]
OptimConfig(method, iters) == [nil |-> FALSE, Method |-> method, Iterations |-> iters]
NilTrainConfig == [nil |-> TRUE, Cost |-> "", Lambda |-> RZero, Optimize |-> NilOptim]
TrainConfig(cost, lambda, optimize) ==
    [nil |-> FALSE, Cost |-> cost, Lambda |-> lambda, Optimize |-> optimize]
\* a *mat64.Vector of labels, and the nil one
NilVec == [nil |-> TRUE, v |-> <<>>]
LabelsVec(v) == [nil |-> FALSE, v |-> v]

\* the keys of the maps trainCost and optim
trainCost == {"xentropy", "loglike"}
optim == {"bfgs"}

\* ValidateTrainConfig(c): "ok" when it returns nil, "error", or the panic of reading
\* c.Optimize.Method through a nil c.Optimize
ValidateTrainConfig(c) ==
    IF c.nil THEN "error"
    ELSE IF c.Cost \notin trainCost THEN "error"
    ELSE IF c.Lambda[1] < 0 THEN "error"
    ELSE IF c.Optimize.nil THEN "panic"
    ELSE IF c.Optimize.Method \notin optim THEN "error"
    ELSE IF c.Optimize.Iterations <= 0 THEN "error"
    ELSE "ok"

\* n.Train(c, inMx, labelsVec) before the optimizer runs: [st, initWeights],
\* st "ok" when optimize.Local is called with initWeights
Train(ls, c, inMx, labelsVec) ==
    IF ValidateTrainConfig(c) # "ok"
    THEN [st |-> ValidateTrainConfig(c), initWeights |-> <<>>]
    ELSE IF IsNil(inMx) THEN [st |-> "error", initWeights |-> <<>>]
    ELSE IF labelsVec.nil THEN [st |-> "error", initWeights |-> <<>>]
    ELSE IF Len(ls) = 0 \/ \E i \in 2..Len(ls) : IsNil(ls[i].weights)
         THEN [st |-> "panic", initWeights |-> <<>>]
         ELSE [st |-> "ok", initWeights |-> initWeights(ls, 2)]

\* a failed evaluation that returns to the optimizer as if it had succeeded
evalOutcomeSwallow(st) == "ok"

\* costFunc and gradFunc: if err != nil { panic(err) }.  The panic unwinds
\* through optimize.Local and Train, neither of which recovers from it.
evalOutcome(st) == IF st # "ok" THEN "panic" ELSE "ok"

\* the L2 term taken over every column, the bias column included
RECURSIVE SqrSumAll(_, _)
SqrSumAll(ls, i) ==
    IF i > Len(ls) THEN RZero
    ELSE LET w == ls[i].weights IN
         RAdd(RSum([k \in 1..(w.r * w.c) |->
                      LET x == At(w, ((k - 1) % w.r) + 1, ((k - 1) \div w.r) + 1)
                      IN RMul(x, x)]),
              SqrSumAll(ls, i + 1))

\* the L2 term of getCost: the squares of the weights outside the bias column
RECURSIVE SqrSum(_, _)
SqrSum(ls, i) ==
    IF i > Len(ls) THEN RZero
    ELSE LET w == ls[i].weights IN
         RAdd(RSum([k \in 1..(w.r * (w.c - 1)) |->
                      LET x == At(w, ((k - 1) % w.r) + 1, ((k - 1) \div w.r) + 2)
                      IN RMul(x, x)]),
              SqrSum(ls, i + 1))

\* a cost evaluation that runs the backpropagation of the gradient evaluation
getCostWithBackProp(ls, lambda, weights, inMx, labelsVec) ==
    With(getGradient(ls, lambda, weights, inMx, labelsVec), LAMBDA r :
         [st |-> r.st, layers |-> r.layers,
          reg |-> IF r.st = "ok" /\ RPos(lambda)
                  THEN RMul(RMul(lambda, RInv(2 * inMx.r)), SqrSum(r.layers, 2))
                  ELSE RZero])

\* Network.getCost(c, weights, inMx, labelsVec): [st, layers, reg]; reg is the
\* regularisation term added to the cost strategy's value
getCost(ls, lambda, weights, inMx, labelsVec) ==
    IF Len(ls) = 0 THEN [st |-> "panic", layers |-> ls, reg |-> RZero]
    ELSE With(SetIfGiven(ls, weights), LAMBDA sw :
    IF sw.st # "ok" THEN [st |-> sw.st, layers |-> sw.layers, reg |-> RZero]
    ELSE With(ForwardProp(sw.layers, inMx, Len(ls) - 1), LAMBDA fp :
    IF fp.st # "ok" THEN [st |-> fp.st, layers |-> sw.layers, reg |-> RZero]
    ELSE With(MakeLabelsMx(labelsVec, fp.out.c), LAMBDA lm :
    IF lm.st # "ok" THEN [st |-> lm.st, layers |-> sw.layers, reg |-> RZero]
    ELSE IF RPos(lambda)
         THEN IF \E i \in 2..Len(ls) : IsNil(sw.layers[i].weights)
              THEN [st |-> "panic", layers |-> sw.layers, reg |-> RZero]
              ELSE [st |-> "ok", layers |-> sw.layers,
                    reg |-> RMul(RMul(lambda, RInv(2 * inMx.r)), SqrSum(sw.layers, 2))]
         ELSE [st |-> "ok", layers |-> sw.layers, reg |-> RZero])))

\* the sum of the squares of the weights outside the bias column
SqrSumOf(w) == RSum([k \in 1..(w.r * (w.c - 1)) |->
                       RMul(At(w, ((k - 1) % w.r) + 1, ((k - 1) \div w.r) + 2),
                            At(w, ((k - 1) % w.r) + 1, ((k - 1) \div w.r) + 2))])

\* the loop of backprop.CostReg over layers i.. (1-based): [st, reg]
RECURSIVE costRegLoop(_, _, _, _, _)
costRegLoop(ls, i, lambda, samples, reg) ==
    IF i > Len(ls) THEN [st |-> "ok", reg |-> reg]
    ELSE IF IsNil(ls[i].weights) THEN [st |-> "panic", reg |-> RZero]
    ELSE costRegLoop(ls, i + 1, lambda, samples,
                     RAddF(reg, RDiv(RMul(lambda, RInv(2 * samples)),
                                     SqrSumOf(ls[i].weights))))

\* backprop.CostReg(n, lambda, samples): [st, reg]
CostReg(ls, lambda, samples) ==
    IF lambda[1] < 0 \/ samples <= 0 THEN [st |-> "error", reg |-> RI(-1)]
    ELSE IF ~RPos(lambda) THEN [st |-> "ok", reg |-> RZero]
    ELSE IF Len(ls) = 0 THEN [st |-> "panic", reg |-> RZero]
    ELSE costRegLoop(ls, 2, lambda, samples, RZero)

\* backprop.GradReg(n, layerIdx, lambda, samples): [st, out]; layerIdx is 0-based
GradReg(ls, layerIdx, lambda, samples) ==
    IF layerIdx = 0 \/ layerIdx > Len(ls) - 1 THEN [st |-> "error", out |-> NilMx]
    ELSE IF samples <= 0 THEN [st |-> "error", out |-> NilMx]
    ELSE IF layerIdx < 0 THEN [st |-> "panic", out |-> NilMx]
    ELSE IF IsNil(ls[layerIdx + 1].weights) THEN [st |-> "panic", out |-> NilMx]
    ELSE With(ls[layerIdx + 1].weights, LAMBDA w :
         IF RPos(lambda)
         THEN [st |-> "ok",
               out |-> MkMx(w.r, w.c,
                            LAMBDA i, j : IF j = 1 THEN RZero
                                          ELSE RMul(RMul(lambda, RInv(samples)),
                                                    At(w, i, j)))]
         ELSE [st |-> "ok", out |-> Zeros(w.r, w.c)])

\* the sum of all elements of a matrix (mat64.Sum)
MxSum(m) == RSum([k \in 1..(m.r * m.c) |-> At(m, ((k - 1) \div m.c) + 1, ((k - 1) % m.c) + 1)])

\* Network.Classify(inMx): [st, out]; every output row scaled by 100/sum
Classify(ls, inMx) ==
    IF IsNil(inMx) THEN [st |-> "error", out |-> NilMx]
    ELSE With(ForwardProp(ls, inMx, Len(ls) - 1), LAMBDA fp :
         IF fp.st # "ok" THEN [st |-> fp.st, out |-> NilMx]
         ELSE [st |-> "ok",
               out |-> MkMx(inMx.r, fp.out.c,
                            LAMBDA i, j : RMulF(RDiv(RI(100), MxSum(RowOf(fp.out, i))),
                                                At(fp.out, i, j)))])

\* a < b for finite values
RLess(a, b) == a[1] * b[2] < b[1] * a[2]

\* mat64.Max(row) of row i of m, from column j on, max the largest so far
RECURSIVE RowMaxFrom(_, _, _, _)
RowMaxFrom(m, i, j, max) ==
    IF j > m.c THEN max
    ELSE RowMaxFrom(m, i, j + 1, IF RLess(max, At(m, i, j)) THEN At(m, i, j) ELSE max)
RowMax(m, i) == RowMaxFrom(m, i, 2, At(m, i, 1))

\* the scan of a row that stops at the first column holding the maximum
rowHitFirstMax(m, i, max, label, j) ==
    IF \A k \in 1..m.c : At(m, i, k) = max => label <= k
       /\ label \in 1..m.c /\ At(m, i, label) = max
    THEN 1 ELSE 0

\* Validate's scan of row i from column j on: 1 for a hit, 0 for none
RECURSIVE rowHit(_, _, _, _, _)
rowHit(m, i, max, label, j) ==
    IF j > m.c THEN 0
    ELSE IF At(m, i, j) = max /\ j = label THEN 1
    ELSE rowHit(m, i, max, label, j + 1)

\* Validate's loop over the rows from row i on, hits counted so far
RECURSIVE countHits(_, _, _, _)
countHits(m, labels, i, hits) ==
    IF i > m.r THEN hits
    ELSE countHits(m, labels, i + 1, hits + rowHit(m, i, RowMax(m, i), labels[i], 1))

\* Network.Validate(valInMx, valOut): [st, success]; reading a label past the
\* end of valOut panics
Validate(ls, valInMx, valOut) ==
    IF IsNil(valInMx) \/ valOut.nil THEN [st |-> "error", success |-> RZero]
    ELSE With(ForwardProp(ls, valInMx, Len(ls) - 1), LAMBDA fp :
         IF fp.st # "ok" THEN [st |-> fp.st, success |-> RZero]
         ELSE IF Len(valOut.v) < fp.out.r THEN [st |-> "panic", success |-> RZero]
         ELSE [st |-> "ok",
               success |-> RMulF(RDiv(RI(countHits(fp.out, valOut.v, 1, 0)),
                                      RI(Len(valOut.v))),
                                 RI(100))])

(***************************************************************************)
(* Bounds and the inputs the operations are tried on                        *)
(***************************************************************************)
MaxLayers == 3      \* AddLayer is tried while the network is shorter
MaxOps == 2         \* weight-changing operations and evaluations per run

Mx1(a) == MkMx(1, 1, LAMBDA i, j : RI(a))
Row2(a, b) == MkMx(1, 2, LAMBDA i, j : IF j = 1 THEN RI(a) ELSE RI(b))
Col2(a, b) == MkMx(2, 1, LAMBDA i, j : IF i = 1 THEN RI(a) ELSE RI(b))
Sq2(a, b, c, d) == MkMx(2, 2, LAMBDA i, j : IF i = 1 THEN (IF j = 1 THEN RI(a) ELSE RI(b))
                                            ELSE (IF j = 1 THEN RI(c) ELSE RI(d)))

ReluCfg(kind, size) == LayerConfig(kind, size, "relu")

\* NewLayer is tried on every combination of these
CfgKinds == {"input", "hidden", "output", "foobar"}
CfgSizes == {-1, 0, 1, 2}
CfgActs == {"relu", "sigmoid", "fooact"}
LayerIns == {-1, 0, 1, 2}
LayerConfigs == {NilConfig} \cup
    {LayerConfig(k, z, a) : k \in CfgKinds, z \in CfgSizes, a \in CfgActs}

\* NewNetwork is tried on these configurations
InputCfgs == {NilConfig} \cup {LayerConfig("input", z, "") : z \in {0, 1}}
HiddenCfgs == {<<>>, <<ReluCfg("hidden", 2)>>, <<ReluCfg("hidden", 0)>>,
               <<ReluCfg("hidden", 2), ReluCfg("hidden", 1)>>}
OutputCfgs == {NilConfig, ReluCfg("output", 0), ReluCfg("output", 1),
               ReluCfg("output", 2), LayerConfig("output", 2, "fooact")}
NetArchs == {NilArch} \cup
    {NetArch(i, h, o) : i \in InputCfgs, h \in HiddenCfgs, o \in OutputCfgs}
NetConfigs == {NilNetConfig} \cup {NetConfig("feedfwd", a) : a \in NetArchs}
                \cup {NetConfig("foobar", NetArch(LayerConfig("input", 1, ""), <<>>,
                                                  ReluCfg("output", 1)))}

\* the layers AddLayer is tried with: layers NewLayer builds
AddCands == {NewLayer(LayerConfig("input", 1, ""), 1).layer,
             NewLayer(ReluCfg("hidden", 2), 1).layer,
             NewLayer(ReluCfg("output", 1), 2).layer}

\* weight matrices SetWeights is tried with
WCands == {NilMx} \cup {Fill(r, c, RI(v)) : r \in {1, 2}, c \in {2, 3}, v \in {1}}
            \cup {Sq2(1, -1, 2, 3)}

\* inputs of ForwardProp and BackProp
XCands == {NilMx, Mx1(1), Row2(1, 2), Col2(1, 2)}
BPCases == {[x |-> NilMx, e |-> Mx1(1)], [x |-> Mx1(1), e |-> NilMx],
            [x |-> Mx1(1), e |-> Mx1(1)], [x |-> Mx1(1), e |-> Row2(1, -1)],
            [x |-> Row2(1, 2), e |-> Mx1(1)], [x |-> Mx1(1), e |-> Col2(1, 1)]}

\* flat weight vectors: 1, 2, ..., n and 1, 1, ..., 1
Ramp(n) == [k \in 1..n |-> RI(k)]
Ones(n) == [k \in 1..n |-> ROne]

\* the number of weights of the layers after the first
RECURSIVE TotalW(_, _)
TotalW(ls, i) == IF i > Len(ls) THEN 0
                 ELSE ls[i].weights.r * ls[i].weights.c + TotalW(ls, i + 1)

VecCands(ls) == LET t == TotalW(ls, 2) IN
    {Ramp(n) : n \in {t - 1, t, t + 1} \cap Nat} \cup {Ones(t)}

\* training data: samples x features, with one label per sample
TrainSets == {[x |-> Col2(1, 2), y |-> <<1, 1>>], [x |-> Col2(1, 2), y |-> <<1, 2>>],
              [x |-> Sq2(1, 2, 0, 1), y |-> <<1, 1>>]}
Lambdas == {RZero, ROne}
\* the vectors the optimizer asks an evaluation at: as long as initWeights
OptimCands(ls) == {Ramp(TotalW(ls, 2)), Ones(TotalW(ls, 2))}
\* training configurations: the valid ones and one for every check
GoodOptim == OptimConfig("bfgs", 1)
TrainCfg(lam) == TrainConfig("xentropy", lam, GoodOptim)
BadTrainCfgs == {NilTrainConfig, TrainConfig("foobar", ROne, GoodOptim),
                 TrainConfig("loglike", RI(-1), GoodOptim),
                 TrainConfig("xentropy", ROne, NilOptim),
                 TrainConfig("xentropy", ROne, OptimConfig("foobar", 1)),
                 TrainConfig("xentropy", ROne, OptimConfig("bfgs", 0))}
\* the calls of Train: every valid configuration with every training set, a
\* nil input or nil labels, and every invalid configuration
TrainCases ==
    {[c |-> TrainCfg(lam), x |-> d.x, y |-> LabelsVec(d.y)] : lam \in Lambdas, d \in TrainSets}
    \cup {[c |-> TrainCfg(ROne), x |-> NilMx, y |-> LabelsVec(<<1, 1>>)],
          [c |-> TrainCfg(ROne), x |-> Col2(1, 2), y |-> NilVec]}
    \cup {[c |-> c, x |-> Col2(1, 2), y |-> LabelsVec(<<1, 1>>)] : c \in BadTrainCfgs}
\* label vectors and label counts MakeLabelsMx is tried with
LabelVecs == {<<1>>, <<1, 2>>, <<2, 1, 1>>, <<3, 1>>}
LabelCounts == {-1, 0, 1, 2, 3}
\* validation sets: nil arguments, one label per row, too few and too many
ValCases == {[x |-> NilMx, y |-> LabelsVec(<<1>>)], [x |-> Mx1(1), y |-> NilVec],
             [x |-> Mx1(1), y |-> LabelsVec(<<1>>)], [x |-> Mx1(1), y |-> LabelsVec(<<2>>)],
             [x |-> Col2(1, 2), y |-> LabelsVec(<<1, 1>>)],
             [x |-> Col2(1, 2), y |-> LabelsVec(<<1, 2>>)],
             [x |-> Col2(1, 2), y |-> LabelsVec(<<2, 2>>)],
             [x |-> Col2(1, -1), y |-> LabelsVec(<<2, 1>>)],
             [x |-> Row2(1, 2), y |-> LabelsVec(<<2>>)],
             [x |-> Col2(1, 2), y |-> LabelsVec(<<1>>)],
             [x |-> Mx1(1), y |-> LabelsVec(<<1, 1>>)]}
\* lambda and samples CostReg and GradReg are tried with
RegArgs == {[lam |-> RI(-1), n |-> 2], [lam |-> RZero, n |-> 2], [lam |-> ROne, n |-> 2],
            [lam |-> ROne, n |-> 0]}

NoLast == [op |-> "none", st |-> "ok", i |-> 0, m |-> NilMx, m2 |-> NilMx,
           out |-> NilMx, v |-> <<>>, g |-> <<>>, lam |-> RZero, y |-> <<>>,
           reg |-> RZero, lay |-> NilLayer, cfg |-> NilConfig, n |-> 0,
           ncfg |-> NilNetConfig, tc |-> NilTrainConfig, ynil |-> FALSE,
           same |-> FALSE]

\* no training in progress
NoRun == [phase |-> "idle", c |-> NilTrainConfig, x |-> NilMx, y |-> <<>>,
          evals |-> 0, failed |-> FALSE, w |-> <<>>]

\* Train runs to its end before anything else is called: while the optimizer
\* is at work only its callbacks and its return happen.
\* A panic ends the program.  A call that left the network as it was (a failed
\* or a read-only call, a NewNetwork that returned no network) is not
\* continued: what can follow it is what could follow the state before it.
Alive == last.st # "panic" /\ ~last.same
Idle == Alive /\ run.phase = "idle"

Init == /\ layers = <<>>
        /\ builtArch = NilArch
        /\ nops = 0
        /\ last = NoLast
        /\ gradLog = {}
        /\ run = NoRun

\* NewLayer(c, layerIn): the constructor does not read the network
NewLayerOp ==
    /\ Idle /\ layers = <<>>
    /\ \E c \in LayerConfigs, n \in LayerIns :
          LET r == NewLayer(c, n) IN
          last' = [NoLast EXCEPT !.op = "NewLayer", !.st = r.st, !.cfg = c, !.n = n,
                                 !.lay = r.layer, !.same = TRUE]
    /\ UNCHANGED <<layers, builtArch, nops, gradLog, run>>

\* n, err := NewNetwork(c)
NewNetworkOp ==
    /\ Idle /\ layers = <<>> /\ nops = 0
    /\ \E c \in NetConfigs :
          LET r == NewNetwork(c) IN
          /\ layers' = r.layers
          /\ builtArch' = IF r.st = "ok" THEN c.Arch ELSE builtArch
          /\ last' = [NoLast EXCEPT !.op = "NewNetwork", !.st = r.st, !.ncfg = c,
                                    !.same = (r.layers = layers)]
    /\ UNCHANGED <<nops, gradLog, run>>

\* err := n.AddLayer(layer)
AddLayerOp ==
    /\ Idle /\ Len(layers) < MaxLayers
    /\ \E l \in AddCands :
          LET r == AddLayer(layers, l) IN
          /\ layers' = r.layers
          /\ last' = [NoLast EXCEPT !.op = "AddLayer", !.st = r.st, !.lay = l,
                                    !.same = (r.layers = layers /\ gradLog = {})]
    /\ gradLog' = {}
    /\ UNCHANGED <<builtArch, nops, run>>

\* err := n.Layers()[i-1].SetWeights(w)
SetWeightsOp ==
    /\ Idle /\ nops < MaxOps
    /\ \E i \in 1..Len(layers), w \in WCands :
          LET r == SetWeights(layers[i], w) IN
          /\ layers' = SetLayer(layers, i, r.layer)
          /\ last' = [NoLast EXCEPT !.op = "SetWeights", !.st = r.st, !.i = i, !.m = w,
                                    !.same = (r.layer = layers[i] /\ gradLog = {})]
    /\ nops' = nops + 1
    /\ gradLog' = {}
    /\ UNCHANGED <<builtArch, run>>

\* err := setNetWeights(n.Layers()[1:], weights)
SetNetWeightsOp ==
    /\ Idle /\ nops < MaxOps /\ Len(layers) > 0
    /\ \E v \in VecCands(layers) :
          LET r == SetTail(layers, v) IN
          /\ layers' = r.layers
          /\ last' = [NoLast EXCEPT !.op = "setNetWeights", !.st = r.st, !.v = v,
                                    !.same = (r.layers = layers /\ gradLog = {})]
    /\ nops' = nops + 1
    /\ gradLog' = {}
    /\ UNCHANGED <<builtArch, run>>

\* out, err := n.ForwardProp(inMx, toLayer)
ForwardPropOp ==
    /\ Idle
    /\ \E x \in XCands, to \in -1..Len(layers) :
          LET r == ForwardProp(layers, x, to) IN
          last' = [NoLast EXCEPT !.op = "ForwardProp", !.st = r.st, !.m = x, !.i = to,
                                 !.out = r.out, !.same = TRUE]
    /\ UNCHANGED <<layers, builtArch, nops, gradLog, run>>

\* classMx, err := n.Classify(inMx)
ClassifyOp ==
    /\ Idle
    /\ \E x \in XCands :
          LET r == Classify(layers, x) IN
          last' = [NoLast EXCEPT !.op = "Classify", !.st = r.st, !.m = x, !.out = r.out,
                                 !.same = TRUE]
    /\ UNCHANGED <<layers, builtArch, nops, gradLog, run>>

\* success, err := n.Validate(valInMx, valOut)
ValidateOp ==
    /\ Idle
    /\ \E t \in ValCases :
          LET r == Validate(layers, t.x, t.y) IN
          last' = [NoLast EXCEPT !.op = "Validate", !.st = r.st, !.m = t.x, !.y = t.y.v,
                                 !.ynil = t.y.nil, !.reg = r.success, !.same = TRUE]
    /\ UNCHANGED <<layers, builtArch, nops, gradLog, run>>

\* reg, err := backprop.CostReg(n, lambda, samples)
CostRegOp ==
    /\ Idle
    /\ \E a \in RegArgs :
          LET r == CostReg(layers, a.lam, a.n) IN
          last' = [NoLast EXCEPT !.op = "CostReg", !.st = r.st, !.lam = a.lam, !.n = a.n,
                                 !.reg = r.reg, !.same = TRUE]
    /\ UNCHANGED <<layers, builtArch, nops, gradLog, run>>

\* regWeights, err := backprop.GradReg(n, layerIdx, lambda, samples)
GradRegOp ==
    /\ Idle
    /\ \E a \in RegArgs, idx \in 0..Len(layers) :
          LET r == GradReg(layers, idx, a.lam, a.n) IN
          last' = [NoLast EXCEPT !.op = "GradReg", !.st = r.st, !.lam = a.lam, !.n = a.n,
                                 !.i = idx, !.out = r.out, !.same = TRUE]
    /\ UNCHANGED <<layers, builtArch, nops, gradLog, run>>

\* err := n.BackProp(inMx, errMx, fromLayer)
BackPropOp ==
    /\ Idle /\ nops < MaxOps
    /\ \E d \in BPCases, from \in 0..Len(layers) :
          LET x == d.x
              e == d.e
              r == BackProp(layers, x, e, from) IN
          /\ layers' = r.layers
          /\ last' = [NoLast EXCEPT !.op = "BackProp", !.st = r.st, !.m = x, !.m2 = e,
                                    !.i = from,
                                    !.same = (r.layers = layers /\ gradLog = {})]
    /\ nops' = nops + 1
    /\ gradLog' = {}
    /\ UNCHANGED <<builtArch, run>>

\* labelsMx, err := matrix.MakeLabelsMx(labels, labCount): the function does
\* not read the network
MakeLabelsMxOp ==
    /\ Idle /\ layers = <<>>
    /\ \E y \in LabelVecs, k \in LabelCounts :
          LET r == MakeLabelsMx(y, k) IN
          last' = [NoLast EXCEPT !.op = "MakeLabelsMx", !.st = r.st, !.y = y, !.n = k,
                                 !.out = r.mx, !.same = TRUE]
    /\ UNCHANGED <<layers, builtArch, nops, gradLog, run>>

\* err := ValidateTrainConfig(c)
ValidateTrainConfigOp ==
    /\ Idle
    /\ \E c \in BadTrainCfgs \cup {TrainCfg(lam) : lam \in Lambdas}
                           \cup {TrainConfig("loglike", RZero, GoodOptim)} :
          last' = [NoLast EXCEPT !.op = "ValidateTrainConfig",
                                 !.st = ValidateTrainConfig(c), !.tc = c, !.same = TRUE]
    /\ UNCHANGED <<layers, builtArch, nops, gradLog, run>>

\* n.Train(c, inMx, labelsVec) up to its call of optimize.Local: a rejected
\* call returns, an accepted one hands costFunc and gradFunc to the optimizer
TrainOp ==
    /\ Idle /\ nops < MaxOps /\ Len(layers) > 0
    /\ \E t \in TrainCases :
          LET r == Train(layers, t.c, t.x, t.y) IN
          /\ last' = [NoLast EXCEPT !.op = IF r.st = "ok" THEN "optimize.Local" ELSE "Train",
                                    !.st = r.st, !.tc = t.c, !.m = t.x, !.y = t.y.v,
                                    !.ynil = t.y.nil, !.v = r.initWeights,
                                    !.same = (r.st # "ok")]
          /\ run' = IF r.st = "ok"
                    THEN [phase |-> "running", c |-> t.c, x |-> t.x, y |-> t.y.v,
                          evals |-> 0, failed |-> FALSE, w |-> <<>>]
                    ELSE run
    /\ UNCHANGED <<layers, builtArch, nops, gradLog>>

\* the optimizer's call of costFunc(x): n.getCost(c, x, inMx, labelsVec)
CostEvalOp ==
    /\ Alive /\ run.phase = "running" /\ nops < MaxOps
    /\ \E w \in OptimCands(layers) :
          LET r == getCost(layers, run.c.Lambda, w, run.x, run.y) IN
          /\ layers' = r.layers
          /\ last' = [NoLast EXCEPT !.op = "getCost", !.st = evalOutcome(r.st),
                                    !.lam = run.c.Lambda, !.v = w,
                                    !.m = run.x, !.y = run.y, !.reg = r.reg,
                                    !.same = (r.layers = layers)]
          /\ run' = [run EXCEPT !.evals = @ + 1, !.failed = (r.st # "ok"), !.w = w,
                                !.phase = IF evalOutcome(r.st) = "panic"
                                          THEN "aborted" ELSE @]
    /\ nops' = nops + 1
    /\ UNCHANGED <<builtArch, gradLog>>

\* the optimizer's call of gradFunc(grad, x): n.getGradient(c, x, inMx, labelsVec)
GradEvalOp ==
    /\ Alive /\ run.phase = "running" /\ nops < MaxOps
    /\ \E w \in OptimCands(layers) :
          LET r == getGradient(layers, run.c.Lambda, w, run.x, run.y)
              o == IF Len(r.grad) > Len(w) THEN "panic" ELSE evalOutcome(r.st) IN
          /\ layers' = r.layers
          /\ last' = [NoLast EXCEPT !.op = "getGradient", !.st = o,
                                    !.lam = run.c.Lambda, !.v = w, !.m = run.x,
                                    !.y = run.y, !.g = r.grad,
                                    !.same = (r.st # "ok" /\ r.layers = layers)]
          /\ gradLog' = IF r.st = "ok"
                        THEN gradLog \cup {[w |-> w, lam |-> run.c.Lambda, x |-> run.x,
                                            y |-> run.y, grad |-> r.grad]}
                        ELSE gradLog
          /\ run' = [run EXCEPT !.evals = @ + 1, !.failed = (r.st # "ok"), !.w = w,
                                !.phase = IF o = "panic" THEN "aborted" ELSE @]
    /\ nops' = nops + 1
    /\ UNCHANGED builtArch

\* optimize.Local returns and Train returns what it returned: an error, or nil
TrainReturnOp ==
    /\ Alive /\ run.phase = "running"
    /\ \E st \in {"ok", "error"} :
          last' = [NoLast EXCEPT !.op = "Train", !.st = st, !.tc = run.c, !.m = run.x,
                                 !.y = run.y, !.n = run.evals, !.v = run.w,
                                 !.same = (run.evals = 0)]
    /\ run' = NoRun
    /\ UNCHANGED <<layers, builtArch, nops, gradLog>>

Next == \/ NewLayerOp
        \/ NewNetworkOp
        \/ AddLayerOp
        \/ SetWeightsOp
        \/ SetNetWeightsOp
        \/ ForwardPropOp
        \/ ClassifyOp
        \/ ValidateOp
        \/ CostRegOp
        \/ GradRegOp
        \/ BackPropOp
        \/ MakeLabelsMxOp
        \/ ValidateTrainConfigOp
        \/ TrainOp
        \/ CostEvalOp
        \/ GradEvalOp
        \/ TrainReturnOp

Spec == Init /\ [][Next]_vars

(***************************************************************************)
(* Properties                                                               *)
(***************************************************************************)
Count(ls, kind) == Cardinality({i \in 1..Len(ls) : ls[i].kind = kind})

\* the network is as NewNetwork returned it: no layer added since
AsBuilt == ~builtArch.nil /\ Len(layers) = Len(builtArch.Hidden) + 2
Fresh == AsBuilt /\ nops = 0

\* C1: two gradient evaluations of one run of evaluations with the same
\* weight vector, lambda and data return the same gradient
C1_GradientIsPure ==
    \A a, b \in gradLog :
        (a.w = b.w /\ a.lam = b.lam /\ a.x = b.x /\ a.y = b.y) => a.grad = b.grad

\* C2: a successful gradient evaluation returns one entry per weight of the
\* non-input layers, for every lambda >= 0
C2_GradientLength ==
    (last.op = "getGradient" /\ last.st = "ok") => Len(last.g) = TotalW(layers, 2)

ValidLayerCfg(c, kind) ==
    ~c.nil /\ c.Kind = kind /\ c.Size > 0 /\ (kind = "input" \/ c.Activation \in activations)
ValidArch(a) ==
    /\ ~a.nil
    /\ ValidLayerCfg(a.Input, "input")
    /\ \A i \in 1..Len(a.Hidden) : ValidLayerCfg(a.Hidden[i], "hidden")
    /\ ValidLayerCfg(a.Output, "output")

\* C3: for a valid architecture with h hidden layers NewNetwork returns h+2
\* layers: INPUT, the HIDDEN layers in the declared order, OUTPUT
C3_NewNetworkLayers ==
    (last.op = "NewNetwork" /\ ~last.ncfg.nil /\ last.ncfg.Kind = "feedfwd"
        /\ ValidArch(last.ncfg.Arch)) =>
    LET a == last.ncfg.Arch
        h == Len(a.Hidden)
    IN /\ last.st = "ok"
       /\ Len(layers) = h + 2
       /\ layers[1].kind = INPUT
       /\ \A i \in 1..h : /\ layers[i + 1].kind = HIDDEN
                          /\ layers[i + 1].weights.r = a.Hidden[i].Size
       /\ layers[h + 2].kind = OUTPUT
       /\ layers[h + 2].weights.r = a.Output.Size

C3_Witness ==
    /\ last.op = "NewNetwork" /\ last.st = "ok"
    /\ Len(last.ncfg.Arch.Hidden) = 2
    /\ Len(layers) = 4

\* C4: the network never holds more than one INPUT or more than one OUTPUT
\* layer, whatever AddLayer calls were made
C4_SingleInputOutput == Count(layers, INPUT) <= 1 /\ Count(layers, OUTPUT) <= 1

\* C5: Layers() is sorted: INPUT (if any) first, OUTPUT (if any) last, the
\* HIDDEN layers between them
C5_LayersSorted ==
    \A i \in 1..Len(layers) :
        /\ layers[i].kind = INPUT => i = 1
        /\ layers[i].kind = OUTPUT => i = Len(layers)

\* the output width of layer i (1-based) where the model knows it
WidthKnown(i) == layers[i].kind # INPUT \/ (i = 1 /\ ~builtArch.nil)
OutWidth(i) == IF layers[i].kind = INPUT THEN builtArch.Input.Size
               ELSE layers[i].weights.r
ChainedAt(i) == layers[i].weights.c = OutWidth(i - 1) + 1

\* C6 as stated: in every reachable network each non-input layer has as many
\* weight columns as the preceding layer's output width plus one
C6_Original ==
    \A i \in 2..Len(layers) :
        (layers[i].kind # INPUT /\ WidthKnown(i - 1)) => ChainedAt(i)

\* C6 amended: the same of every network as NewNetwork built it and as
\* SetWeights and weight unpacking changed it, no layer having been added
C6_WidthsChained ==
    AsBuilt => \A i \in 2..Len(layers) : ChainedAt(i)

C6_Witness ==
    /\ AsBuilt /\ Len(layers) = 4
    /\ last.op = "setNetWeights" /\ last.st = "ok"
    /\ nops = 2

ShapeOK(l) == IF l.kind = INPUT THEN IsNil(l.weights) /\ IsNil(l.deltas)
              ELSE ~IsNil(l.weights) /\ SameDims(l.deltas, l.weights)

\* C7: every non-input layer's gradient accumulator has the shape of its
\* weight matrix, and an INPUT layer has neither
C7_DeltasTrackWeights ==
    /\ \A i \in 1..Len(layers) : ShapeOK(layers[i])
    /\ (last.op = "NewLayer" /\ last.st = "ok") => ShapeOK(last.lay)

C7_Witness ==
    /\ last.op = "getGradient" /\ last.st = "ok"
    /\ \E i \in 1..Len(layers) :
          /\ layers[i].kind # INPUT
          /\ layers[i].weights.r # layers[i].weights.c
          /\ ~IsZeroMx(layers[i].deltas)

\* C8: SetWeights fails and changes nothing on an INPUT layer, a nil matrix
\* or a shape mismatch; otherwise it installs the matrix and zeroes the
\* accumulator
C8_SetWeights ==
    [][last'.op = "SetWeights" =>
        LET i == last'.i
            w == last'.m
            l == layers[i]
        IN IF l.kind = INPUT \/ IsNil(w) \/ ~SameDims(w, l.weights)
           THEN last'.st = "error" /\ layers' = layers
           ELSE /\ last'.st = "ok"
                /\ layers'[i].weights = w
                /\ SameDims(layers'[i].deltas, w) /\ IsZeroMx(layers'[i].deltas)
                /\ layers'[i].kind = l.kind /\ layers'[i].meta = l.meta
                /\ Len(layers') = Len(layers)
                /\ \A k \in 1..Len(layers) : k # i => layers'[k] = layers[k]]_vars

C8_Witness ==
    /\ last.op = "SetWeights" /\ last.st = "ok"
    /\ layers[last.i].weights = last.m
    /\ IsZeroMx(layers[last.i].deltas)
    /\ nops = 2

\* the column count of the input that layer k (0-based) receives
RECURSIVE InCols(_, _, _)
InCols(ls, x, k) == IF k = 0 THEN x.c
                    ELSE IF ls[k].kind = INPUT THEN InCols(ls, x, k - 1)
                    ELSE ls[k].weights.r
Mismatch(ls, x, k) == ls[k + 1].kind # INPUT /\ InCols(ls, x, k) + 1 # ls[k + 1].weights.c

FwdFails(firstLayer) ==
    \/ IsNil(last.m)
    \/ last.i < 0 \/ last.i > Len(layers) - 1
    \/ \E k \in firstLayer..last.i : Mismatch(layers, last.m, k)

\* C9 as stated: ForwardProp fails exactly on a nil input, a layer index out
\* of range, or a width mismatch at one of the layers 1..toLayer
C9_Original ==
    last.op = "ForwardProp" =>
        IF FwdFails(1) THEN last.st = "error" /\ IsNil(last.out)
        ELSE last.st = "ok" /\ ~IsNil(last.out)

\* C9 amended: the width mismatch may be at any layer 0..toLayer that has
\* weights, layer 0 included when it is not an INPUT layer
C9_ForwardPropErrors ==
    last.op = "ForwardProp" =>
        IF FwdFails(0) THEN last.st = "error" /\ IsNil(last.out)
        ELSE last.st = "ok" /\ ~IsNil(last.out)

C9_Witness ==
    /\ last.op = "ForwardProp" /\ last.st = "error"
    /\ ~IsNil(last.m) /\ last.i >= 0 /\ last.i <= Len(layers) - 1
    /\ ~(\E k \in 1..last.i : Mismatch(layers, last.m, k))

\* C10: on a freshly built network ForwardProp(x, 0) returns x itself for
\* every non-nil x, whatever its column count
C10_InputIdentity ==
    (Fresh /\ last.op = "ForwardProp" /\ last.i = 0 /\ ~IsNil(last.m)) =>
        (last.st = "ok" /\ last.out = last.m)

C10_Witness ==
    /\ Fresh /\ last.op = "ForwardProp" /\ last.i = 0 /\ last.st = "ok"
    /\ last.m.c # builtArch.Input.Size
    /\ last.out = last.m
\* the declared size of layer k (0-based) of the network as built
LayerSize(k) == IF k = 0 THEN builtArch.Input.Size
                ELSE IF k <= Len(builtArch.Hidden) THEN builtArch.Hidden[k].Size
                ELSE builtArch.Output.Size

\* C11: on a built network a successful ForwardProp(input, k), k >= 1, has
\* the rows of the input and as many columns as layer k's size, and so has
\* the result of Classify for the output layer
C11_OutputShape ==
    /\ (AsBuilt /\ last.op = "ForwardProp" /\ last.st = "ok" /\ last.i >= 1) =>
           (last.out.r = last.m.r /\ last.out.c = LayerSize(last.i))
    /\ (AsBuilt /\ last.op = "Classify" /\ last.st = "ok") =>
           (last.out.r = last.m.r /\ last.out.c = LayerSize(Len(layers) - 1))

C11_Witness ==
    /\ AsBuilt /\ last.op = "Classify" /\ last.st = "ok"
    /\ Len(layers) = 4 /\ last.m.r = 2 /\ last.out.r = 2 /\ last.out.c = 2

\* C12: BackProp with a nil input, a nil error or fromLayer outside
\* 1..layerCount-1 returns an error and leaves every layer as it was
C12_BackPropRejects ==
    [][(last'.op = "BackProp" /\ (\/ IsNil(last'.m) \/ IsNil(last'.m2)
                                   \/ last'.i < 1 \/ last'.i > Len(layers) - 1)) =>
          (last'.st = "error" /\ layers' = layers)]_vars

C12_Witness ==
    /\ last.op = "BackProp" /\ last.st = "error"
    /\ ~IsNil(last.m) /\ IsNil(last.m2)
    /\ last.i >= 1 /\ last.i <= Len(layers) - 1
    /\ nops = 2
    /\ \E i \in 1..Len(layers) : ~IsNil(layers[i].deltas) /\ ~IsZeroMx(layers[i].deltas)

\* every layer after the first has a weight matrix
TailHasWeights == Len(layers) >= 1 /\ \A i \in 2..Len(layers) : ~IsNil(layers[i].weights)

\* C13: unpacking the packed weights leaves every weight matrix as it was,
\* and packing after unpacking a vector of exactly the parameter count gives
\* that vector back
C13_PackUnpack ==
    /\ TailHasWeights =>
          LET sw == SetTail(layers, initWeights(layers, 2))
          IN sw.st = "ok" /\ sw.layers = layers
    /\ (last.op = "setNetWeights" /\ last.st = "ok" /\ Len(last.v) = TotalW(layers, 2)) =>
          initWeights(layers, 2) = last.v

C13_Witness ==
    /\ last.op = "setNetWeights" /\ last.st = "ok"
    /\ Len(layers) = 3 /\ Len(last.v) = TotalW(layers, 2)
    /\ layers[2].weights.r = 2 /\ layers[2].weights.c = 2
    /\ At(layers[2].weights, 1, 2) # At(layers[2].weights, 2, 1)

\* the element count of the non-input layers before layer i (1-based)
Offset(i) == TotalW(layers, 2) - TotalW(layers, i)
\* the 0-based place of element (r, c), 0-based, of layer i in the flat vector
IdxRowMajor(i, r, c) == Offset(i) + r * layers[i].weights.c + c
IdxColMajor(i, r, c) == Offset(i) + c * layers[i].weights.r + r

\* the flat vectors follow the layout Idx: the packed weights, the weights an
\* unpacked vector leaves, and the gradient of an evaluation with lambda > 0
LayoutHolds(Idx(_, _, _)) ==
    TailHasWeights =>
    \A i \in 2..Len(layers) :
      \A r \in 0..(layers[i].weights.r - 1), c \in 0..(layers[i].weights.c - 1) :
        /\ initWeights(layers, 2)[Idx(i, r, c) + 1] = At(layers[i].weights, r + 1, c + 1)
        /\ (last.op \in {"setNetWeights", "getCost", "getGradient"} /\ last.st = "ok"
              /\ last.v # <<>>) =>
               last.v[Idx(i, r, c) + 1] = At(layers[i].weights, r + 1, c + 1)
        /\ (last.op = "getGradient" /\ last.st = "ok" /\ RPos(last.lam)) =>
               last.g[Idx(i, r, c) + 1] =
                   RAdd(At(layers[i].deltas, r + 1, c + 1),
                        IF c = 0 THEN RZero
                        ELSE RMul(RMul(last.lam, RInv(last.m.r)),
                                  At(layers[i].weights, r + 1, c + 1)))

C15_InsufficientWeights ==
    (last.op = "setNetWeights" /\ TailHasWeights) =>
        IF Len(last.v) < TotalW(layers, 2) THEN last.st = "error"
        ELSE /\ last.st = "ok"
             /\ initWeights(layers, 2) = SubSeq(last.v, 1, TotalW(layers, 2))

C15_Witness ==
    /\ last.op = "setNetWeights" /\ last.st = "ok" /\ TailHasWeights
    /\ Len(layers) = 3
    /\ Len(last.v) = TotalW(layers, 2) + 1

\* the accumulators of layers i.. (1-based) packed as the gradient is
RECURSIVE packedDeltas(_, _)
packedDeltas(ls, i) ==
    IF i > Len(ls) THEN <<>>
    ELSE Mx2VecByCol(ls[i].deltas) \o packedDeltas(ls, i + 1)

\* C16: with lambda = 0 the regularization term of the cost is 0 (getCost and
\* CostReg), GradReg is the zero matrix of the layer's weight shape, and the
\* gradient is the accumulators scaled by 1/samples alone
C16_ZeroLambda ==
    /\ (last.op = "getCost" /\ last.st = "ok" /\ last.lam = RZero) => last.reg = RZero
    /\ (last.op = "CostReg" /\ last.st = "ok" /\ last.lam = RZero) => last.reg = RZero
    /\ (last.op = "GradReg" /\ last.st = "ok" /\ last.lam = RZero) =>
           (IsZeroMx(last.out) /\ SameDims(last.out, layers[last.i + 1].weights))
    /\ (last.op = "getGradient" /\ last.st = "ok" /\ last.lam = RZero) =>
           last.g = packedDeltas(layers, 2)

\* the squares of the weights of w in the columns after the bias column
NonBiasSquares(w) == [k \in 1..(w.r * (w.c - 1)) |->
                        RMul(At(w, ((k - 1) \div (w.c - 1)) + 1, ((k - 1) % (w.c - 1)) + 2),
                             At(w, ((k - 1) \div (w.c - 1)) + 1, ((k - 1) % (w.c - 1)) + 2))]
\* S: their sum over the non-input layers
NonBiasSqrTotal == RSum([i \in 1..(Len(layers) - 1) |->
                           RSum(NonBiasSquares(layers[i + 1].weights))])

\* C17: for lambda > 0 the cost evaluation adds (lambda / (2*samples)) * S to
\* the base cost, S the sum of the squared weights outside the bias column
C17_CostRegTerm ==
    (last.op = "getCost" /\ last.st = "ok" /\ RPos(last.lam)) =>
        last.reg = RMul(RMul(last.lam, RInv(2 * last.m.r)), NonBiasSqrTotal)

C17_Witness ==
    /\ last.op = "getCost" /\ last.st = "ok" /\ RPos(last.lam)
    /\ Len(layers) = 3 /\ RPos(last.reg)
    /\ \E i \in 2..Len(layers) : At(layers[i].weights, 1, 1) # RZero

\* C18: backprop.CostReg with lambda > 0 and samples > 0 returns
\* (lambda / (2*samples)) times the sum of the squared non-bias weights
C18_CostRegValue ==
    (last.op = "CostReg" /\ last.st = "ok" /\ RPos(last.lam) /\ last.n > 0) =>
        last.reg = RMul(RMul(last.lam, RInv(2 * last.n)), NonBiasSqrTotal)

\* C19: when an evaluation made for the optimizer fails, the failure is a panic
\* that ends the run: no evaluation follows it and Train never returns success
C19_AbortOnFailure ==
    /\ [](run.failed => (run.phase = "aborted" /\ last.st = "panic"))
    /\ [][run.failed => (run'.evals = run.evals
                          /\ ~(last'.op = "Train" /\ last'.st = "ok"))]_vars

C19_Witness ==
    /\ run.failed /\ run.evals = 1 /\ run.phase = "aborted"
    /\ last.op \in {"getCost", "getGradient"}

\* a configuration one of ValidateTrainConfig's requirements does not hold of
InvalidTrainConfig(c) ==
    \/ c.Cost \notin trainCost
    \/ c.Lambda[1] < 0
    \/ c.Optimize.nil
    \/ c.Optimize.Method \notin optim
    \/ c.Optimize.Iterations <= 0

\* C20: Train called with a nil or invalid configuration, a nil input or nil
\* labels returns an error; the optimizer is not started, nothing is evaluated
\* and no layer changes
C20_TrainRejects ==
    [][(/\ run.phase = "idle"
        /\ last'.op \in {"Train", "optimize.Local"}
        /\ \/ last'.tc.nil
           \/ InvalidTrainConfig(last'.tc)
           \/ IsNil(last'.m)
           \/ last'.ynil)
       => (/\ last'.op = "Train" /\ last'.st = "error"
           /\ layers' = layers /\ run' = run /\ nops' = nops)]_vars

\* C21: ValidateTrainConfig returns an error exactly for a nil configuration,
\* an unsupported cost, a negative lambda, an unsupported optimization method
\* or a non-positive number of iterations, and nil for every other one
C21_ValidateTrainConfig ==
    (last.op = "ValidateTrainConfig") =>
        /\ last.st \in {"ok", "error"}
        /\ last.st = "error" <=> (last.tc.nil \/ InvalidTrainConfig(last.tc))

\* a configuration NewNetwork is said to refuse
RefusedNetConfig(c) ==
    \/ c.nil
    \/ c.Kind # "feedfwd"
    \/ c.Arch.nil
    \/ c.Arch.Input.nil \/ c.Arch.Output.nil
    \/ c.Arch.Input.Size <= 0 \/ c.Arch.Output.Size <= 0
    \/ \E i \in 1..Len(c.Arch.Hidden) : c.Arch.Hidden[i].Size <= 0

\* C22: NewNetwork returns no network and an error for a nil configuration, an
\* unsupported kind, a nil architecture, a nil Input or Output layer
\* configuration, or a layer size that is not positive
C22_NewNetworkRejects ==
    (last.op = "NewNetwork" /\ RefusedNetConfig(last.ncfg)) =>
        (last.st = "error" /\ layers = <<>>)

\* the arguments NewLayer is said to refuse
RefusedLayerArgs(c, layerIn) ==
    \/ layerIn <= 0
    \/ ~c.nil /\ \/ c.Size <= 0
                 \/ c.Kind \notin LayerKindNames
                 \/ c.Kind # "input" /\ c.Activation \notin activations

LastOut == ForwardProp(layers, last.m, Len(layers) - 1).out
\* the rows whose label is 1 + the (0-based) index of a column holding the
\* row's maximum
HitRows == {i \in 1..LastOut.r :
              /\ last.y[i] \in 1..LastOut.c
              /\ \A k \in 1..LastOut.c : ~RLess(At(LastOut, i, last.y[i]), At(LastOut, i, k))}

\* C24: Validate with one label per row returns 100 * hits / len(labels), a
\* row being a hit when its label names a column holding the row's maximum;
\* the result lies in 0..100; a nil input or nil labels give 0 and an error
C24_Validate ==
    /\ (last.op = "Validate" /\ last.st = "ok" /\ Len(last.y) = last.m.r) =>
           /\ last.reg = RMul(RI(100 * Cardinality(HitRows)), RInv(Len(last.y)))
           /\ ~RLess(last.reg, RZero) /\ ~RLess(RI(100), last.reg)
    /\ (last.op = "Validate" /\ (IsNil(last.m) \/ last.ynil)) =>
           (last.st = "error" /\ last.reg = RZero)

\* two rows; in one, two output columns tie for the maximum and the label
\* names the second of them
C24_Witness ==
    /\ last.op = "Validate" /\ last.st = "ok" /\ Len(last.y) = 2 /\ last.m.r = 2
    /\ LastOut.c = 2
    /\ \E i \in HitRows : At(LastOut, i, 1) = At(LastOut, i, 2) /\ last.y[i] = 2

\* what layer k (0-based) adds to its accumulator for the error e:
\* e^T times the biased output of layer k-1
Contribution(ls, x, e, k) == MxMul(T(e), AddBias(ForwardProp(ls, x, k - 1).out))
\* the error of layer k-1 derived from the error e of layer k: the error
\* carried back through the weights of layer k without its bias row, times
\* the activation gradient of layer k-1
ErrBelow(ls, x, e, k) ==
    LET back == MxMul(T(ls[k + 1].weights), T(e))
        pre  == MxMul(AddBias(ForwardProp(ls, x, k - 2).out), T(ls[k].weights))
    IN MkMx(pre.r, pre.c,
            LAMBDA i, j : RMul(At(back, j + 1, i), ActGrad(ls[k].meta, At(pre, i, j))))
\* the error layer k works with when BackProp starts at layer from with e
RECURSIVE ErrAt(_, _, _, _, _)
ErrAt(ls, x, e, from, k) ==
    IF k = from THEN e ELSE ErrBelow(ls, x, ErrAt(ls, x, e, from, k + 1), k + 1)

\* C25: a successful BackProp from layer fromLayer adds one contribution to
\* the accumulator of each of the layers fromLayer, ..., 1 and changes no
\* other accumulator and no weights
C25_BackPropFrame ==
    [][(last'.op = "BackProp" /\ last'.st = "ok") =>
          /\ Len(layers') = Len(layers)
          /\ \A i \in 1..Len(layers) :
                /\ layers'[i].weights = layers[i].weights
                /\ layers'[i].kind = layers[i].kind /\ layers'[i].meta = layers[i].meta
                /\ (i = 1 \/ i > last'.i + 1) => layers'[i].deltas = layers[i].deltas
                /\ (i >= 2 /\ i <= last'.i + 1) =>
                       layers'[i].deltas =
                           MxAdd(layers[i].deltas,
                                 Contribution(layers, last'.m,
                                              ErrAt(layers, last'.m, last'.m2, last'.i, i - 1),
                                              i - 1))]_vars

C25_Witness ==
    /\ last.op = "BackProp" /\ last.st = "ok" /\ last.i = 2 /\ Len(layers) = 3
    /\ ~IsZeroMx(layers[2].deltas) /\ ~IsZeroMx(layers[3].deltas)

\* C26: for lambda > 0 the gradient entry of a bias-column weight is the
\* accumulator scaled by 1/samples, and the entry of any other weight is the
\* scaled accumulator plus (lambda/samples) times the weight; GradReg is
\* (lambda/samples) times the weights with the bias column zeroed.
\* After the evaluation a layer's deltas hold its scaled accumulator.
C26_BiasNotRegularized ==
    /\ (last.op = "getGradient" /\ last.st = "ok" /\ RPos(last.lam)) =>
           /\ Len(last.g) = TotalW(layers, 2)
           /\ \A i \in 2..Len(layers) :
                 \A r \in 0..(layers[i].weights.r - 1), c \in 0..(layers[i].weights.c - 1) :
                    last.g[IdxColMajor(i, r, c) + 1] =
                        IF c = 0 THEN At(layers[i].deltas, r + 1, 1)
                        ELSE RAdd(At(layers[i].deltas, r + 1, c + 1),
                                  RMul(RMul(last.lam, RInv(last.m.r)),
                                       At(layers[i].weights, r + 1, c + 1)))
    /\ (last.op = "GradReg" /\ last.st = "ok" /\ RPos(last.lam)) =>
           \A r \in 1..last.out.r, c \in 1..last.out.c :
              At(last.out, r, c) =
                  IF c = 1 THEN RZero
                  ELSE RMul(RMul(last.lam, RInv(last.n)),
                            At(layers[last.i + 1].weights, r, c))

C26_Witness ==
    /\ last.op = "getGradient" /\ last.st = "ok" /\ RPos(last.lam)
    /\ Len(layers) = 3
    /\ \A i \in 2..3 : At(layers[i].weights, 1, 1) # RZero /\ At(layers[i].weights, 1, 2) # RZero
    /\ \E i \in 2..3 : ~IsZeroMx(layers[i].deltas)

\* the network with the weights and the accumulators of the layers an
\* evaluation writes to (all but the first) set to zero: what is left of it
\* when the earlier evaluations are forgotten
Scrub(ls) == [i \in 1..Len(ls) |->
                IF i = 1 THEN ls[i]
                ELSE [ls[i] EXCEPT !.weights = Zeros(ls[i].weights.r, ls[i].weights.c),
                                   !.deltas = Zeros(ls[i].deltas.r, ls[i].deltas.c)]]

\* C27: ForwardProp, Classify and Validate change no layer; a cost evaluation
\* changes no accumulator and sets the weights to the vector it is given, so
\* the network's output and the regularization term, hence the cost, are
\* those of the scrubbed network given the same vector
C27_CostFrame ==
    [][/\ last'.op \in {"ForwardProp", "Classify", "Validate"} => layers' = layers
       /\ last'.op = "getCost" =>
              /\ Len(layers') = Len(layers)
              /\ \A i \in 1..Len(layers) :
                    /\ layers'[i].deltas = layers[i].deltas
                    /\ layers'[i].kind = layers[i].kind /\ layers'[i].meta = layers[i].meta
                    /\ SameDims(layers'[i].weights, layers[i].weights)
       /\ (last'.op = "getCost" /\ last'.st = "ok") =>
              /\ initWeights(layers', 2) = last'.v
              /\ last'.reg = getCost(Scrub(layers), last'.lam, last'.v, last'.m, last'.y).reg
              /\ ForwardProp(layers', last'.m, Len(layers) - 1).out =
                     ForwardProp(SetTail(Scrub(layers), last'.v).layers,
                                 last'.m, Len(layers) - 1).out]_vars

\* a cost evaluation after a gradient evaluation that left accumulators
C27_Witness ==
    /\ last.op = "getCost" /\ last.st = "ok" /\ run.evals = 2
    /\ \E i \in 2..Len(layers) : ~IsZeroMx(layers[i].deltas)
    /\ RPos(last.reg)

\* C28: a setNetWeights that fails on a vector that is too short has changed
\* no weight matrix
C28_AllOrNothing ==
    [][(last'.op = "setNetWeights" /\ last'.st = "error") => layers' = layers]_vars

\* C29: when Train returns nil after at least one evaluation, the weights of
\* the network are the last vector the optimizer asked an evaluation at;
\* the optimizer is started at the packed weights of the network, and the
\* return of Train writes nothing to the network
C29_TrainLeavesLastVector ==
    /\ []((last.op = "Train" /\ last.st = "ok" /\ last.n >= 1) =>
              initWeights(layers, 2) = last.v)
    /\ [](last.op = "optimize.Local" => last.v = initWeights(layers, 2))
    /\ [][last'.op \in {"Train", "optimize.Local"} => layers' = layers]_vars

C29_Witness ==
    /\ last.op = "Train" /\ last.st = "ok" /\ last.n = 2
    /\ Len(layers) = 3 /\ last.v = Ones(TotalW(layers, 2))

\* C30: MakeLabelsMx with count >= 1 and every label in 1..count returns a
\* len(labels) x count matrix whose row i holds one 1, at the (0-based) column
\* labels[i]-1, and 0 elsewhere; with count < 0 it returns nil and an error
C30_MakeLabelsMx ==
    /\ (last.op = "MakeLabelsMx" /\ last.n >= 1
            /\ \A i \in 1..Len(last.y) : last.y[i] \in 1..last.n) =>
           /\ last.st = "ok"
           /\ last.out.r = Len(last.y) /\ last.out.c = last.n
           /\ \A i \in 1..Len(last.y) : \A c \in 0..(last.n - 1) :
                  At(last.out, i, c + 1) = IF c = last.y[i] - 1 THEN ROne ELSE RZero
    /\ (last.op = "MakeLabelsMx" /\ last.n < 0) =>
           (last.st = "error" /\ IsNil(last.out))

C30_Witness ==
    /\ last.op = "MakeLabelsMx" /\ last.st = "ok"
    /\ last.y = <<2, 1, 1>> /\ last.n = 3
    /\ At(last.out, 1, 2) = ROne /\ At(last.out, 1, 3) = RZero
====
